---------------------------- MODULE Spec2Model ----------------------------
(***************************************************************************)
(* A model of txscript/script.go: the script parser, the re-encoder, the   *)
(* classifiers, the canonical-push check, the signature-operation counters *)
(* and the one-line disassembler.                                          *)
(*                                                                         *)
(* A script is a sequence of bytes (naturals below 256).  Go offsets are   *)
(* kept 0-based, as in the source; Slice and Remaining translate them to   *)
(* the 1-based sequences of TLA+.  A parsedOpcode is a record              *)
(* [opcode |-> byte, data |-> bytes]; the opcode's table entry is looked   *)
(* up from the byte.  A Go string is a sequence of one-character strings.  *)
(***************************************************************************)
EXTENDS Integers, Sequences, FiniteSets

VARIABLES
    script,     \* the raw script handed to the operations (scriptPubKey, pkScript)
    nparts,     \* how many pieces the driver has appended to script
    pc,         \* "input" | "parse" | "done" | "return"
    i,          \* parseScriptTemplate: the loop cursor
    retScript,  \* parseScriptTemplate: the opcodes decoded so far
    err,        \* parseScriptTemplate: the error it returned
    ret         \* the last call: its name, its arguments and what it returned

vars == <<script, nparts, pc, i, retScript, err, ret>>

---------------------------------------------------------------------------
(* Opcode values (opcode.go). *)

OP_0 == 0
OP_DATA_1 == 1
OP_DATA_2 == 2
OP_DATA_20 == 20
OP_DATA_75 == 75
OP_PUSHDATA1 == 76
OP_PUSHDATA2 == 77
OP_PUSHDATA4 == 78
OP_1NEGATE == 79
OP_RESERVED == 80
OP_1 == 81
OP_3 == 83
OP_16 == 96
OP_NOP == 97
OP_RETURN == 106
OP_EQUAL == 135
OP_HASH160 == 169
OP_CHECKSIG == 172
OP_CHECKSIGVERIFY == 173
OP_CHECKMULTISIG == 174
OP_CHECKMULTISIGVERIFY == 175
OP_SSTX == 186
OP_SSTXCHANGE == 189
OP_CHECKSIGALT == 190
OP_CHECKSIGALTVERIFY == 191

MaxPubKeysPerMultiSig == 20

(* opcodeArray[op].length: 1 for an opcode without operand, the total      *)
(* instruction size for OP_DATA_1..OP_DATA_75, and minus the width of the  *)
(* length prefix for OP_PUSHDATA1, OP_PUSHDATA2 and OP_PUSHDATA4.          *)
OpLength(op) ==
    CASE op >= OP_DATA_1 /\ op <= OP_DATA_75 -> op + 1
      [] op = OP_PUSHDATA1 -> -1
      [] op = OP_PUSHDATA2 -> -2
      [] op = OP_PUSHDATA4 -> -4
      [] OTHER -> 1

(* Error values: nil and the script error codes. *)
Nil == "nil"
ErrMalformedPush == "ErrMalformedPush"
ErrInternal == "ErrInternal"
ErrUnsupportedScriptVersion == "ErrUnsupportedScriptVersion"

---------------------------------------------------------------------------
(* Go slices. *)

\* len(s[off:])
Remaining(s, off) == Len(s) - off

\* s[lo:hi]
Slice(s, lo, hi) == SubSeq(s, lo + 1, hi)

Last(s) == s[Len(s)]

RECURSIVE Pow256(_)
Pow256(n) == IF n = 0 THEN 1 ELSE 256 * Pow256(n - 1)

(* The little-endian length prefix of OP_PUSHDATA{1,2,4}: the uint l of    *)
(* lines 186-202.  l may reach 2^32 - 1; it is kept as its bit 31 and its  *)
(* low 31 bits, both of which are small integers.                          *)
LittleEndian(s, off, width) ==
    LET top == IF width = 4 THEN s[off + 4] ELSE 0
        low == IF width = 1 THEN s[off + 1]
               ELSE IF width = 2 THEN s[off + 2] * 256 + s[off + 1]
               ELSE (s[off + 4] % 128) * Pow256(3) + s[off + 3] * Pow256(2)
                    + s[off + 2] * 256 + s[off + 1]
    IN  [bit31 |-> top \div 128, low |-> low]

(* int(l) > n || int(l) < 0 for 0 <= n < 2^31 (line 209).  Where int has   *)
(* 64 bits int(l) is l, never negative, and it exceeds n when bit 31 is    *)
(* set or the low bits exceed n; where int has 32 bits int(l) is negative  *)
(* exactly when bit 31 is set, and is the low bits otherwise.  Both builds *)
(* give the same answer.                                                   *)
DoesNotFit(l, n) == l.bit31 = 1 \/ l.low > n

---------------------------------------------------------------------------
(* parseScriptTemplate, one iteration of its loop at a cursor within the   *)
(* script:                                                                 *)
(* err is Nil and pop the decoded instruction and next the new cursor, or  *)
(* err is the error the function returns with.                             *)

FixedPushShortOffByOne(s, at, length) == Remaining(s, at) <= length

\* len(script[i:]) < op.length (line 160)
FixedPushShort(s, at, length) == Remaining(s, at) < length

AfterPrefixedPushNoOpcode(at, length, l) == at - length + l

\* i += 1 - op.length + int(l) (line 218)
AfterPrefixedPush(at, length, l) == at + 1 - length + l

Malformed == [err |-> ErrMalformedPush, pop |-> [opcode |-> 0, data |-> <<>>], next |-> 0]

Decoded(op, data, next) == [err |-> Nil, pop |-> [opcode |-> op, data |-> data], next |-> next]

DecodeAt(s, at) ==
    LET instr == s[at + 1]
        length == OpLength(instr)
        off == at + 1
    IN  CASE length = 1 -> Decoded(instr, <<>>, at + 1)
          [] length > 1 ->
               IF FixedPushShort(s, at, length)
               THEN Malformed
               ELSE Decoded(instr, Slice(s, at + 1, at + length), at + length)
          [] length < 0 ->
               IF Remaining(s, off) < -length
               THEN Malformed
               ELSE IF length \notin {-1, -2, -4}
               THEN Malformed
               ELSE LET l == LittleEndian(s, off, -length)
                        dataOff == off - length
                    IN  IF DoesNotFit(l, Remaining(s, dataOff))
                        THEN Malformed
                        ELSE Decoded(instr, Slice(s, dataOff, dataOff + l.low),
                                     AfterPrefixedPush(at, length, l.low))
          [] OTHER -> Decoded(instr, <<>>, at)

(* parseScriptTemplate as a function: the loop run from cursor `at` with   *)
(* `acc` decoded so far.  off is the cursor when it returned.              *)
RECURSIVE ParseFrom(_, _, _)
ParseFrom(s, at, acc) ==
    IF at >= Len(s)
    THEN [pops |-> acc, err |-> Nil, off |-> at]
    ELSE LET d == DecodeAt(s, at)
         IN  IF d.err # Nil
             THEN [pops |-> acc, err |-> d.err, off |-> at]
             ELSE ParseFrom(s, d.next, Append(acc, d.pop))

parseScript(s) == ParseFrom(s, 0, <<>>)

---------------------------------------------------------------------------
(* parsedOpcode.bytes (opcode.go): the opcode byte, then for a prefixed    *)
(* push the little-endian data length in the prefix's width, then the      *)
(* data; an internal error when the result has not the size the opcode     *)
(* and the prefix announce.                                                *)

LengthPrefix(n, width) == [k \in 1..width |-> (n \div Pow256(k - 1)) % 256]

PopBytes(pop) ==
    LET length == OpLength(pop.opcode)
        n == Len(pop.data)
    IN  IF length = 1
        THEN IF n # 0 THEN [bytes |-> <<>>, err |-> ErrInternal]
             ELSE [bytes |-> <<pop.opcode>>, err |-> Nil]
        ELSE IF length > 1
        THEN IF 1 + n # length THEN [bytes |-> <<>>, err |-> ErrInternal]
             ELSE [bytes |-> <<pop.opcode>> \o pop.data, err |-> Nil]
        ELSE IF -length < 4 /\ n >= Pow256(-length) THEN [bytes |-> <<>>, err |-> ErrInternal]
             ELSE [bytes |-> <<pop.opcode>> \o LengthPrefix(n, -length) \o pop.data,
                   err |-> Nil]

(* unparseScript: the concatenation of the opcodes' bytes, or nil and the  *)
(* first error.                                                            *)
RECURSIVE UnparseFrom(_, _, _)
UnparseFrom(pops, k, acc) ==
    IF k > Len(pops)
    THEN [bytes |-> acc, err |-> Nil]
    ELSE LET b == PopBytes(pops[k])
         IN  IF b.err # Nil
             THEN [bytes |-> <<>>, err |-> b.err]
             ELSE UnparseFrom(pops, k + 1, acc \o b.bytes)

unparseScript(pops) == UnparseFrom(pops, 1, <<>>)

---------------------------------------------------------------------------
(* Classification. *)

isSmallInt(op) == op = OP_0 \/ (op >= OP_1 /\ op <= OP_16)

isPushOnly(pops) == \A k \in 1..Len(pops) : ~(pops[k].opcode > OP_16)

isStakeOpcode(op) == op >= OP_SSTX /\ op <= OP_SSTXCHANGE

isScriptHash(pops) ==
    /\ Len(pops) = 3
    /\ pops[1].opcode = OP_HASH160
    /\ pops[2].opcode = OP_DATA_20
    /\ pops[3].opcode = OP_EQUAL

isStakeScriptHash(pops) ==
    /\ Len(pops) = 4
    /\ isStakeOpcode(pops[1].opcode)
    /\ pops[2].opcode = OP_HASH160
    /\ pops[3].opcode = OP_DATA_20
    /\ pops[4].opcode = OP_EQUAL

isAnyKindOfScriptHash(pops) == isScriptHash(pops) \/ isStakeScriptHash(pops)

IsPayToScriptHash(s) ==
    LET p == parseScript(s)
    IN  IF p.err # Nil THEN FALSE ELSE isScriptHash(p.pops)

IsPushOnlyScriptIgnoringError(s) == isPushOnly(parseScript(s).pops)

IsPushOnlyScript(s) ==
    LET p == parseScript(s)
    IN  IF p.err # Nil THEN FALSE ELSE isPushOnly(p.pops)

IsUnspendableAnyAmount(amount, pkScript) ==
    LET p == parseScript(pkScript)
    IN  IF p.err # Nil THEN TRUE
        ELSE Len(p.pops) > 0 /\ p.pops[1].opcode = OP_RETURN

IsUnspendable(amount, pkScript) ==
    IF amount = 0 THEN TRUE
    ELSE LET p == parseScript(pkScript)
         IN  IF p.err # Nil THEN TRUE
             ELSE Len(p.pops) > 0 /\ p.pops[1].opcode = OP_RETURN

---------------------------------------------------------------------------
(* Canonical pushes and removal by data. *)

canonicalPushInclusive(pop) ==
    LET opcode == pop.opcode
        data == pop.data
        dataLen == Len(pop.data)
    IN  IF opcode > OP_16 THEN TRUE
        ELSE IF opcode < OP_PUSHDATA1 /\ opcode > OP_0 /\ (dataLen = 1 /\ data[1] <= 16)
        THEN FALSE
        ELSE IF opcode = OP_PUSHDATA1 /\ dataLen <= OP_PUSHDATA1 THEN FALSE
        ELSE IF opcode = OP_PUSHDATA2 /\ dataLen <= 255 THEN FALSE
        ELSE IF opcode = OP_PUSHDATA4 /\ dataLen <= 65535 THEN FALSE
        ELSE TRUE

canonicalPush(pop) ==
    LET opcode == pop.opcode
        data == pop.data
        dataLen == Len(pop.data)
    IN  IF opcode > OP_16 THEN TRUE
        ELSE IF opcode < OP_PUSHDATA1 /\ opcode > OP_0 /\ (dataLen = 1 /\ data[1] <= 16)
        THEN FALSE
        ELSE IF opcode = OP_PUSHDATA1 /\ dataLen < OP_PUSHDATA1 THEN FALSE
        ELSE IF opcode = OP_PUSHDATA2 /\ dataLen <= 255 THEN FALSE
        ELSE IF opcode = OP_PUSHDATA4 /\ dataLen <= 65535 THEN FALSE
        ELSE TRUE

\* bytes.Contains(b, sub)
BytesContains(b, sub) ==
    \E k \in 0..(Len(b) - Len(sub)) : SubSeq(b, k + 1, k + Len(sub)) = sub

RECURSIVE RemoveFrom(_, _, _, _)
RemoveFrom(pkscript, data, k, acc) ==
    IF k > Len(pkscript) THEN acc
    ELSE IF ~canonicalPush(pkscript[k]) \/ ~BytesContains(pkscript[k].data, data)
    THEN RemoveFrom(pkscript, data, k + 1, Append(acc, pkscript[k]))
    ELSE RemoveFrom(pkscript, data, k + 1, acc)

removeOpcodeByData(pkscript, data) == RemoveFrom(pkscript, data, 1, <<>>)

---------------------------------------------------------------------------
(* Signature-operation counting. *)

\* int(op - (OP_1 - 1)) on a byte
asSmallInt(op) == IF op = OP_0 THEN 0 ELSE (op - (OP_1 - 1)) % 256

MultiSigKeysSmallInt(pops, precise, k) ==
    IF precise /\ k - 1 > 0 /\ isSmallInt(pops[k - 1].opcode)
    THEN asSmallInt(pops[k - 1].opcode)
    ELSE MaxPubKeysPerMultiSig

(* What an OP_CHECKMULTISIG[VERIFY] at index k adds (lines 349-355; k is   *)
(* 1-based, Go's i is k - 1).                                              *)
MultiSigKeys(pops, precise, k) ==
    IF /\ precise
       /\ k - 1 > 0
       /\ pops[k - 1].opcode >= OP_1
       /\ pops[k - 1].opcode <= OP_16
    THEN asSmallInt(pops[k - 1].opcode)
    ELSE MaxPubKeysPerMultiSig

(* The loop of getSigOpCount from index k. *)
RECURSIVE SigOpsFrom(_, _, _, _)
SigOpsFrom(pops, precise, k, nSigs) ==
    IF k > Len(pops) THEN nSigs
    ELSE LET op == pops[k].opcode
         IN  IF op \in {OP_CHECKSIG, OP_CHECKSIGVERIFY, OP_CHECKSIGALT, OP_CHECKSIGALTVERIFY}
             THEN SigOpsFrom(pops, precise, k + 1, nSigs + 1)
             ELSE IF op \in {OP_CHECKMULTISIG, OP_CHECKMULTISIGVERIFY}
             THEN SigOpsFrom(pops, precise, k + 1, nSigs + MultiSigKeys(pops, precise, k))
             ELSE SigOpsFrom(pops, precise, k + 1, nSigs)

getSigOpCount(pops, precise) == SigOpsFrom(pops, precise, 1, 0)

GetSigOpCount(s) == getSigOpCount(parseScript(s).pops, FALSE)

CountsAsScriptHashIfParsed(scriptPubKey, bip16) == bip16 /\ IsPayToScriptHash(scriptPubKey)

(* Lines 383-386: whether GetPreciseSigOpCount goes on to the signature    *)
(* script.  The parse error of scriptPubKey is dropped.                    *)
CountsAsScriptHash(scriptPubKey, bip16) ==
    bip16 /\ isScriptHash(parseScript(scriptPubKey).pops)

RedeemScriptOfPartial(scriptSig) ==
    LET sigPops == parseScript(scriptSig).pops
    IN  IF ~isPushOnly(sigPops) \/ Len(sigPops) = 0
        THEN [found |-> FALSE, line |-> 402, shScript |-> <<>>]
        ELSE IF Len(Last(sigPops).data) = 0
        THEN [found |-> FALSE, line |-> 409, shScript |-> <<>>]
        ELSE [found |-> TRUE, line |-> 417, shScript |-> Last(sigPops).data]

(* Lines 393-410: the redeem script the signature script pushes last, or   *)
(* the line of the return 0 that gave up.                                  *)
RedeemScriptOf(scriptSig) ==
    LET sig == parseScript(scriptSig)
        sigPops == sig.pops
    IN  IF sig.err # Nil
        THEN [found |-> FALSE, line |-> 395, shScript |-> <<>>]
        ELSE IF ~isPushOnly(sigPops) \/ Len(sigPops) = 0
        THEN [found |-> FALSE, line |-> 402, shScript |-> <<>>]
        ELSE IF Len(Last(sigPops).data) = 0
        THEN [found |-> FALSE, line |-> 409, shScript |-> <<>>]
        ELSE [found |-> TRUE, line |-> 417, shScript |-> Last(sigPops).data]

(* GetPreciseSigOpCount: the count, and the source line of the return      *)
(* statement that produced it.                                             *)
GetPreciseSigOpCount(scriptSig, scriptPubKey, bip16) ==
    IF ~CountsAsScriptHash(scriptPubKey, bip16)
    THEN [nSigOps |-> getSigOpCount(parseScript(scriptPubKey).pops, TRUE), line |-> 387]
    ELSE LET r == RedeemScriptOf(scriptSig)
         IN  IF ~r.found
             THEN [nSigOps |-> 0, line |-> r.line]
             ELSE [nSigOps |-> getSigOpCount(parseScript(r.shScript).pops, TRUE),
                   line |-> r.line]

---------------------------------------------------------------------------
(* The script tokenizer (tokenizer.go) and the opcode disassembly          *)
(* (opcode.go), as far as DisasmString uses them.                          *)

MakeScriptTokenizer(scriptVersion, s) ==
    [script |-> s, offset |-> 0, op |-> 0, data |-> <<>>,
     err |-> IF scriptVersion # 0 THEN ErrUnsupportedScriptVersion ELSE Nil]

TokenizerDone(t) == t.err # Nil \/ t.offset >= Len(t.script)

(* Next: ok tells whether an instruction was decoded; t is the tokenizer   *)
(* afterwards.  A failure leaves the offset at the failing instruction and *)
(* latches the error.                                                      *)
TokenizerNext(t) ==
    IF TokenizerDone(t)
    THEN [ok |-> FALSE, t |-> t]
    ELSE LET d == DecodeAt(t.script, t.offset)
         IN  IF d.err # Nil
             THEN [ok |-> FALSE, t |-> [t EXCEPT !.err = d.err]]
             ELSE [ok |-> TRUE,
                   t |-> [t EXCEPT !.offset = d.next, !.op = d.pop.opcode,
                                   !.data = d.pop.data]]

HexDigits == <<"0", "1", "2", "3", "4", "5", "6", "7", "8", "9",
               "a", "b", "c", "d", "e", "f">>

\* hex.EncodeToString
RECURSIVE HexEncode(_)
HexEncode(b) ==
    IF b = <<>> THEN <<>>
    ELSE <<HexDigits[(b[1] \div 16) + 1], HexDigits[(b[1] % 16) + 1]>> \o HexEncode(Tail(b))

(* The opcode's display name after the one-line replacements: the value    *)
(* itself for OP_0, OP_1NEGATE and OP_1..OP_16.  The names of the opcodes  *)
(* the model does not name are written OP_UNKNOWN.                         *)
OnelineName(op) ==
    CASE op = OP_0 -> <<"0">>
      [] op = OP_1NEGATE -> <<"-", "1">>
      [] op >= OP_1 /\ op <= OP_16 ->
           IF op - OP_1 + 1 < 10
           THEN <<HexDigits[op - OP_1 + 2]>>
           ELSE <<"1", HexDigits[op - OP_1 + 2 - 10]>>
      [] op = OP_NOP -> <<"O", "P", "_", "N", "O", "P">>
      [] op = OP_RETURN -> <<"O", "P", "_", "R", "E", "T", "U", "R", "N">>
      [] op = OP_CHECKSIG -> <<"O", "P", "_", "C", "H", "E", "C", "K", "S", "I", "G">>
      [] op = OP_CHECKMULTISIG ->
           <<"O", "P", "_", "C", "H", "E", "C", "K", "M", "U", "L", "T", "I", "S", "I", "G">>
      [] OTHER -> <<"O", "P", "_", "U", "N", "K", "N", "O", "W", "N">>

(* disasmOpcode(buf, op, data, compact = true): the name of an opcode      *)
(* without operand, the hex-encoded data of a push.                        *)
disasmOpcode(buf, op, data) ==
    IF OpLength(op) = 1 THEN buf \o OnelineName(op) ELSE buf \o HexEncode(data)

ErrorMarker == <<"[", "e", "r", "r", "o", "r", "]">>

(* The for loop of DisasmString (lines 264-267). *)
RECURSIVE DisasmLoop(_, _)
DisasmLoop(tokenizer, disbuf) ==
    LET n == TokenizerNext(tokenizer)
    IN  IF n.ok
        THEN DisasmLoop(n.t, disasmOpcode(disbuf \o <<" ">>, n.t.op, n.t.data))
        ELSE [t |-> n.t, buf |-> disbuf]

ErrorSeparatorAlways(tokenizer) == <<" ">>

\* lines 269-271: a space before the marker unless nothing was consumed
ErrorSeparator(tokenizer) == IF tokenizer.offset # 0 THEN <<" ">> ELSE <<>>

DisasmString(s) ==
    LET first == TokenizerNext(MakeScriptTokenizer(0, s))
        buf0 == IF first.ok THEN disasmOpcode(<<>>, first.t.op, first.t.data) ELSE <<>>
        loop == DisasmLoop(first.t, buf0)
        tokenizer == loop.t
        marked == IF tokenizer.err # Nil
                  THEN loop.buf \o ErrorSeparator(tokenizer) \o ErrorMarker
                  ELSE loop.buf
    IN  [str |-> marked, err |-> tokenizer.err]

---------------------------------------------------------------------------
(* The state machine.  A driver builds a script piece by piece and then    *)
(* calls one operation on it; parseScriptTemplate runs its loop one        *)
(* instruction per step.                                                   *)

NoCall == [op |-> "none"]

Init ==
    /\ script = <<>>
    /\ nparts = 0
    /\ pc = "input"
    /\ i = 0
    /\ retScript = <<>>
    /\ err = Nil
    /\ ret = NoCall

(* The driver appends one of `pieces` to the script, at most `max` times. *)
AppendPiece(pieces, max) ==
    /\ pc = "input"
    /\ nparts < max
    /\ \E p \in pieces :
         script' = script \o p
    /\ nparts' = nparts + 1
    /\ UNCHANGED <<pc, i, retScript, err, ret>>

(* parseScriptTemplate is entered: retScript is empty and i is 0. *)
ParseBegin ==
    /\ pc = "input"
    /\ pc' = "parse"
    /\ i' = 0
    /\ retScript' = <<>>
    /\ err' = Nil
    /\ UNCHANGED <<script, nparts, ret>>

(* One iteration of the loop: the instruction at i is decoded and          *)
(* appended, or the function returns what it has with the error.           *)
ParseStep ==
    /\ pc = "parse"
    /\ i < Len(script)
    /\ LET d == DecodeAt(script, i)
       IN  IF d.err # Nil
           THEN /\ err' = d.err
                /\ pc' = "done"
                /\ UNCHANGED <<i, retScript>>
           ELSE /\ retScript' = Append(retScript, d.pop)
                /\ i' = d.next
                /\ UNCHANGED <<err, pc>>
    /\ UNCHANGED <<script, nparts, ret>>

(* The loop ends at the end of the script: return retScript, nil. *)
ParseEnd ==
    /\ pc = "parse"
    /\ ~(i < Len(script))
    /\ pc' = "done"
    /\ UNCHANGED <<script, nparts, i, retScript, err, ret>>

Return(r) ==
    /\ ret' = r
    /\ pc' = "return"
    /\ UNCHANGED <<script, nparts, i, retScript, err>>

(* unparseScript on what parseScript returned. *)
CallUnparseScript ==
    /\ pc = "done"
    /\ LET u == unparseScript(retScript)
       IN  Return([op |-> "unparseScript", bytes |-> u.bytes, err |-> u.err])

CallDisasmString ==
    /\ pc = "input"
    /\ LET d == DisasmString(script)
       IN  Return([op |-> "DisasmString", str |-> d.str, err |-> d.err])

CallIsPayToScriptHash ==
    /\ pc = "input"
    /\ Return([op |-> "IsPayToScriptHash", result |-> IsPayToScriptHash(script)])

CallIsPushOnlyScript ==
    /\ pc = "input"
    /\ Return([op |-> "IsPushOnlyScript", result |-> IsPushOnlyScript(script)])

Amounts == {0, 1, -1}

CallIsUnspendable ==
    /\ pc = "input"
    /\ \E amount \in Amounts :
         Return([op |-> "IsUnspendable", amount |-> amount,
                 result |-> IsUnspendable(amount, script)])

(* getSigOpCount on the opcodes parseScript returns for the script, the    *)
(* error dropped as GetSigOpCount and GetPreciseSigOpCount drop it.        *)
CallGetSigOpCount ==
    /\ pc = "input"
    /\ \E precise \in BOOLEAN :
         LET pops == parseScript(script).pops
         IN  Return([op |-> "getSigOpCount", pops |-> pops, precise |-> precise,
                     result |-> getSigOpCount(pops, precise)])

(* GetPreciseSigOpCount with the script as scriptPubKey and a signature    *)
(* script from `sigs`.                                                     *)
CallGetPreciseSigOpCount(sigs) ==
    /\ pc = "input"
    /\ \E scriptSig \in sigs, bip16 \in BOOLEAN :
         LET r == GetPreciseSigOpCount(scriptSig, script, bip16)
         IN  Return([op |-> "GetPreciseSigOpCount", scriptSig |-> scriptSig,
                     bip16 |-> bip16, result |-> r.nSigOps, line |-> r.line])

(* canonicalPush on one of the opcodes of the parsed script. *)
CallCanonicalPush ==
    /\ pc = "input"
    /\ \E k \in 1..Len(parseScript(script).pops) :
         LET pop == parseScript(script).pops[k]
         IN  Return([op |-> "canonicalPush", pop |-> pop, result |-> canonicalPush(pop)])

(* removeOpcodeByData on the opcodes of the parsed script. *)
CallRemoveOpcodeByData(targets) ==
    /\ pc = "input"
    /\ \E data \in targets :
         LET pkscript == parseScript(script).pops
         IN  Return([op |-> "removeOpcodeByData", pkscript |-> pkscript, data |-> data,
                     result |-> removeOpcodeByData(pkscript, data)])

---------------------------------------------------------------------------
(* The parser, the re-encoder and the disassembler on every script of at   *)
(* most MaxScriptLen bytes drawn from ParseBytes: a small integer, two     *)
(* direct pushes, the three prefixed pushes (whose length bytes are the    *)
(* same values) and an opcode above 127 that is no push.                   *)

MaxScriptLen == 6

ParseBytes == {OP_0, OP_DATA_1, OP_DATA_2, OP_PUSHDATA1, OP_PUSHDATA2, OP_PUSHDATA4, OP_CHECKMULTISIG}

ParsePieces == {<<b>> : b \in ParseBytes}

Next ==
    \/ AppendPiece(ParsePieces, MaxScriptLen)
    \/ ParseBegin
    \/ ParseStep
    \/ ParseEnd
    \/ CallUnparseScript
    \/ CallDisasmString

Spec == Init /\ [][Next]_vars

---------------------------------------------------------------------------
(* What the claims say of a malformed push, written from the buffer alone: *)
(* the instruction at offset `at` is a fixed-length push with fewer than   *)
(* its length in bytes left, or a prefixed push with fewer bytes than its  *)
(* prefix left after the opcode, or one whose prefix announces more data   *)
(* than follows the prefix.                                                *)

PrefixValue(s, from, width) ==
    LET b(k) == s[from + k]
    IN  IF width = 1 THEN <<0, b(1)>>
        ELSE IF width = 2 THEN <<0, b(1) + 256 * b(2)>>
        ELSE <<b(4), b(1) + 256 * b(2) + 65536 * b(3)>>

PushTruncatedAt(s, at) ==
    LET op == s[at + 1]
        left == Len(s) - at
        width == CASE op = OP_PUSHDATA1 -> 1 [] op = OP_PUSHDATA2 -> 2 [] OTHER -> 4
    IN  \/ op \in OP_DATA_1..OP_DATA_75 /\ left < op + 1
        \/ /\ op \in {OP_PUSHDATA1, OP_PUSHDATA2, OP_PUSHDATA4}
           /\ \/ left - 1 < width
              \/ LET v == PrefixValue(s, at + 1, width)
                 IN  v[1] > 0 \/ v[2] > left - 1 - width

IsPrefixOf(a, b) == Len(a) <= Len(b) /\ a = SubSeq(b, 1, Len(a))

(* C1: re-encoding what parseScript returned succeeds and gives a prefix   *)
(* of the script: the whole script when the parse succeeded, and when it   *)
(* failed a strict prefix that ends where the instruction that could not   *)
(* be decoded begins.                                                      *)
RoundTripPrefix ==
    (pc = "return" /\ ret.op = "unparseScript") =>
        /\ ret.err = Nil
        /\ IsPrefixOf(ret.bytes, script)
        /\ err = Nil => ret.bytes = script
        /\ err # Nil =>
             /\ Len(ret.bytes) < Len(script)
             /\ PushTruncatedAt(script, Len(ret.bytes))

RoundTripWitness ==
    /\ pc = "return" /\ ret.op = "unparseScript"
    /\ err # Nil
    /\ Len(ret.bytes) >= 3
    /\ \E k \in 1..Len(retScript) : Len(retScript[k].data) > 0

(* C2: the cursor stays within the script; an iteration at a malformed     *)
(* push returns ErrMalformedPush with exactly the instructions decoded     *)
(* before it, and any other iteration appends one instruction whose bytes  *)
(* lie within the script and advances the cursor by at least one byte.     *)
ParserStaysInBounds ==
    /\ [](0 <= i /\ i <= Len(script))
    /\ [][(pc = "parse" /\ i < Len(script)) =>
            IF PushTruncatedAt(script, i)
            THEN /\ pc' = "done"
                 /\ err' = ErrMalformedPush
                 /\ retScript' = retScript
            ELSE /\ pc' = "parse"
                 /\ err' = Nil
                 /\ i' >= i + 1
                 /\ i' <= Len(script)
                 /\ Len(retScript') = Len(retScript) + 1
                 /\ SubSeq(retScript', 1, Len(retScript)) = retScript
                 /\ Len(Last(retScript').data) <= i' - i - 1
                 /\ Last(retScript').data
                      = SubSeq(script, i' - Len(Last(retScript').data) + 1, i')
         ]_vars

MalformedFirstPushWitness ==
    /\ pc = "done"
    /\ err = ErrMalformedPush
    /\ retScript = <<>>
    /\ script[1] = OP_PUSHDATA2
    /\ Len(script) = 5

(* The renderings of a decoded sequence, one space between consecutive     *)
(* instructions.                                                           *)
RECURSIVE JoinedDisasm(_)
JoinedDisasm(pops) ==
    IF pops = <<>> THEN <<>>
    ELSE IF Len(pops) = 1 THEN disasmOpcode(<<>>, pops[1].opcode, pops[1].data)
    ELSE JoinedDisasm(SubSeq(pops, 1, Len(pops) - 1)) \o <<" ">>
         \o disasmOpcode(<<>>, Last(pops).opcode, Last(pops).data)

NoStraySpace(str) ==
    /\ str # <<>> => str[1] # " " /\ Last(str) # " "
    /\ \A k \in 1..(Len(str) - 1) : ~(str[k] = " " /\ str[k + 1] = " ")

EndsWithMarker(str) ==
    /\ Len(str) >= Len(ErrorMarker)
    /\ SubSeq(str, Len(str) - Len(ErrorMarker) + 1, Len(str)) = ErrorMarker

DisasmOf(p, r) ==
    IF p.err # Nil
    THEN /\ r.err # Nil
         /\ r.str = JoinedDisasm(p.pops)
                    \o (IF Len(p.pops) > 0 THEN <<" ">> ELSE <<>>) \o ErrorMarker
    ELSE /\ r.err = Nil
         /\ r.str = JoinedDisasm(p.pops)
         /\ ~EndsWithMarker(r.str)

(* C7, as amended: on a parse failure DisasmString returns the renderings  *)
(* of the instructions decoded before it with one space between            *)
(* consecutive ones, then one space if and only if an instruction was      *)
(* decoded, then "[error]", and a non-nil error; on success the renderings *)
(* with one space between consecutive ones, no marker and a nil error.     *)
DisasmErrorFormat ==
    (pc = "return" /\ ret.op = "DisasmString") => DisasmOf(parseScript(script), ret)

DisasmErrorWitness ==
    /\ pc = "return" /\ ret.op = "DisasmString"
    /\ ret.err # Nil
    /\ Len(parseScript(script).pops) >= 2
    /\ ret.str # ErrorMarker

(* C7, as claimed: the above, and on success no leading, trailing or       *)
(* doubled space.                                                          *)
DisasmNoStraySpace ==
    (pc = "return" /\ ret.op = "DisasmString") =>
        /\ DisasmOf(parseScript(script), ret)
        /\ ret.err = Nil => NoStraySpace(ret.str)

---------------------------------------------------------------------------
(* The classifiers on scripts made of at most MaxClassifyPieces pieces:    *)
(* single opcodes and a whole 20-byte push, so that the script-hash        *)
(* patterns, their near misses and truncated pushes after them all occur.  *)

MaxClassifyPieces == 4

HashPush == <<OP_DATA_20>> \o [k \in 1..20 |-> 17]

PayToScriptHashScript == <<OP_HASH160>> \o HashPush \o <<OP_EQUAL>>

ClassifyPieces ==
    {<<b>> : b \in {OP_0, OP_DATA_1, OP_DATA_20, OP_RESERVED, OP_16, OP_NOP, OP_RETURN,
                    OP_EQUAL, OP_HASH160, OP_SSTX}}
    \cup {HashPush}

NextClassify ==
    \/ AppendPiece(ClassifyPieces, MaxClassifyPieces)
    \/ CallIsPayToScriptHash
    \/ CallIsPushOnlyScript
    \/ CallIsUnspendable

SpecClassify == Init /\ [][NextClassify]_vars

Returned(op) == pc = "return" /\ ret.op = op

Opcodes(pops) == [k \in 1..Len(pops) |-> pops[k].opcode]

(* C5: IsUnspendable is true exactly when the amount is zero, or the       *)
(* script does not parse, or it parses and starts with OP_RETURN; so it is *)
(* true for amount zero whatever the script, and false for another amount  *)
(* with the empty script or the pay-to-script-hash script.                 *)
UnspendableIff ==
    Returned("IsUnspendable") =>
        LET p == parseScript(script)
        IN  /\ ret.result <=>
                 \/ ret.amount = 0
                 \/ p.err # Nil
                 \/ (p.err = Nil /\ p.pops # <<>> /\ p.pops[1].opcode = OP_RETURN)
            /\ ret.amount = 0 => ret.result
            /\ (ret.amount # 0 /\ script \in {<<>>, PayToScriptHashScript}) => ~ret.result

UnspendableWitness ==
    /\ Returned("IsUnspendable")
    /\ ret.amount # 0
    /\ script = PayToScriptHashScript
    /\ ~ret.result

(* C6: IsPushOnlyScript and IsPayToScriptHash always answer, and answer    *)
(* false for a script that does not parse; for one that parses,            *)
(* IsPushOnlyScript is true exactly when no opcode is above OP_16 and      *)
(* IsPayToScriptHash exactly when the opcodes are OP_HASH160, OP_DATA_20,  *)
(* OP_EQUAL, and such a script is neither stake script hash nor push only. *)
PredicatesFalseOnParseFailure ==
    LET p == parseScript(script)
    IN  /\ Returned("IsPushOnlyScript") =>
             /\ ret.result \in BOOLEAN
             /\ p.err # Nil => ret.result = FALSE
             /\ p.err = Nil =>
                  (ret.result <=> \A k \in 1..Len(p.pops) : p.pops[k].opcode <= OP_16)
        /\ Returned("IsPayToScriptHash") =>
             /\ ret.result \in BOOLEAN
             /\ p.err # Nil => ret.result = FALSE
             /\ p.err = Nil =>
                  (ret.result <=> Opcodes(p.pops) = <<OP_HASH160, OP_DATA_20, OP_EQUAL>>)
             /\ ret.result =>
                  /\ ~isStakeScriptHash(p.pops)
                  /\ ~isPushOnly(p.pops)
                  /\ ~IsPushOnlyScript(script)

(* A script that fails to parse after three opcodes that form the          *)
(* script-hash pattern, for which IsPayToScriptHash is false.              *)
PredicatesWitness ==
    /\ Returned("IsPayToScriptHash")
    /\ parseScript(script).err # Nil
    /\ isScriptHash(parseScript(script).pops)
    /\ ~ret.result

---------------------------------------------------------------------------
(* getSigOpCount on the opcodes of every script of at most MaxSigCountLen  *)
(* bytes drawn from SigCountBytes: the six signature-check opcodes, the    *)
(* small integers at and next to the ends of OP_1..OP_16, OP_0, and a      *)
(* one-byte push that is cut short at the end of a script.                 *)

MaxSigCountLen == 4

SigCountBytes ==
    {OP_0, OP_DATA_1, OP_RESERVED, OP_1, OP_3, OP_16, OP_NOP,
     OP_CHECKSIG, OP_CHECKSIGVERIFY, OP_CHECKMULTISIG, OP_CHECKMULTISIGVERIFY,
     OP_CHECKSIGALT, OP_CHECKSIGALTVERIFY}

NextSigCount ==
    \/ AppendPiece({<<b>> : b \in SigCountBytes}, MaxSigCountLen)
    \/ CallGetSigOpCount

SpecSigCount == Init /\ [][NextSigCount]_vars

(* What the instruction at index k counts for, as the claim states it. *)
SigOpWeight(pops, k, precise) ==
    LET op == pops[k].opcode
    IN  IF op = OP_CHECKSIG \/ op = OP_CHECKSIGVERIFY
           \/ op = OP_CHECKSIGALT \/ op = OP_CHECKSIGALTVERIFY
        THEN 1
        ELSE IF op = OP_CHECKMULTISIG \/ op = OP_CHECKMULTISIGVERIFY
        THEN IF precise /\ k > 1 /\ pops[k - 1].opcode \in OP_1..OP_16
             THEN pops[k - 1].opcode - OP_1 + 1
             ELSE 20
        ELSE 0

RECURSIVE SumOfWeights(_, _, _)
SumOfWeights(pops, k, precise) ==
    IF k = 0 THEN 0
    ELSE SumOfWeights(pops, k - 1, precise) + SigOpWeight(pops, k, precise)

(* C4: getSigOpCount is the sum over the instructions of 1 for a           *)
(* single-signature check, of the preceding OP_1..OP_16 value (precise) or *)
(* of 20 for a multi-signature check, and of 0 for anything else; it       *)
(* returns a count for every sequence, a partial one included.             *)
SigOpCountIsSumOfWeights ==
    Returned("getSigOpCount") =>
        /\ ret.result \in Nat
        /\ ret.result = SumOfWeights(ret.pops, Len(ret.pops), ret.precise)

(* A partial sequence with a multi-signature check counted by the value    *)
(* before it and another counted as 20.                                    *)
SigOpCountWitness ==
    /\ Returned("getSigOpCount")
    /\ ret.precise
    /\ parseScript(script).err # Nil
    /\ Opcodes(ret.pops) = <<OP_3, OP_CHECKMULTISIG, OP_CHECKMULTISIGVERIFY>>
    /\ ret.result = 23

---------------------------------------------------------------------------
(* GetPreciseSigOpCount on a scriptPubKey of at most MaxPkPieces pieces    *)
(* (the pay-to-script-hash script, opcodes around it, a one-byte push that *)
(* is cut short when it comes last) and every scriptSig of at most         *)
(* MaxSigLen bytes drawn from SigBytes.                                    *)

MaxPkPieces == 3

MaxSigLen == 3

PkPieces ==
    {PayToScriptHashScript}
    \cup {<<b>> : b \in {OP_DATA_1, OP_3, OP_CHECKMULTISIG, OP_HASH160}}

SigBytes == {OP_DATA_1, OP_DATA_2, OP_3, OP_CHECKSIG, OP_CHECKMULTISIG}

SigScripts == UNION {[1..n -> SigBytes] : n \in 0..MaxSigLen}

NextSigOps ==
    \/ AppendPiece(PkPieces, MaxPkPieces)
    \/ CallGetPreciseSigOpCount(SigScripts)

SpecSigOps == Init /\ [][NextSigOps]_vars

(* C3: with bip16 and a scriptPubKey whose decoded opcodes are the         *)
(* script-hash pattern, the count is 0 when scriptSig does not parse to    *)
(* its end, or holds an opcode above OP_16, or is empty, or ends with an   *)
(* opcode without data; otherwise it is the precise count of the redeem    *)
(* script decoded up to its first error, 3 for OP_3 OP_CHECKMULTISIG.      *)
PreciseCountOfRedeemScript ==
    (Returned("GetPreciseSigOpCount") /\ ret.bip16
       /\ isScriptHash(parseScript(script).pops)) =>
        LET sig == parseScript(ret.scriptSig)
        IN  IF \/ sig.err # Nil
               \/ \E k \in 1..Len(sig.pops) : sig.pops[k].opcode > OP_16
               \/ sig.pops = <<>>
               \/ Last(sig.pops).data = <<>>
            THEN ret.result = 0
            ELSE LET redeem == parseScript(Last(sig.pops).data).pops
                 IN  /\ ret.result = SumOfWeights(redeem, Len(redeem), TRUE)
                     /\ Opcodes(redeem) = <<OP_3, OP_CHECKMULTISIG>> => ret.result = 3

(* A redeem script whose sigops before a malformed push are counted. *)
PreciseCountWitness ==
    /\ Returned("GetPreciseSigOpCount") /\ ret.bip16
    /\ script = PayToScriptHashScript
    /\ parseScript(ret.scriptSig).err = Nil
    /\ Len(ret.scriptSig) = 3
    /\ parseScript(Tail(ret.scriptSig)).err # Nil
    /\ ret.result = 20

(* C10, as amended: with bip16 GetPreciseSigOpCount goes on to the         *)
(* signature script exactly when the opcodes of scriptPubKey decoded up to *)
(* its first error are OP_HASH160, OP_DATA_20, OP_EQUAL, which is so       *)
(* whenever IsPayToScriptHash(scriptPubKey) is true and also for a         *)
(* scriptPubKey that fails to parse after those three; otherwise it        *)
(* returns the precise count of scriptPubKey decoded up to its first       *)
(* error.                                                                  *)
PreciseCountFollowsDecodedPattern ==
    (Returned("GetPreciseSigOpCount") /\ ret.bip16) =>
        LET pops == parseScript(script).pops
        IN  /\ ret.line # 387 <=> Opcodes(pops) = <<OP_HASH160, OP_DATA_20, OP_EQUAL>>
            /\ IsPayToScriptHash(script) => ret.line # 387
            /\ ret.line = 387 => ret.result = SumOfWeights(pops, Len(pops), TRUE)

(* A scriptPubKey that fails to parse and is counted by its redeem script. *)
PreciseCountPartialPatternWitness ==
    /\ Returned("GetPreciseSigOpCount") /\ ret.bip16
    /\ parseScript(script).err # Nil
    /\ ~IsPayToScriptHash(script)
    /\ ret.scriptSig = <<OP_DATA_2, OP_3, OP_CHECKMULTISIG>>
    /\ ret.line = 417
    /\ ret.result = 3

(* C10, as claimed: with bip16 GetPreciseSigOpCount goes on to the         *)
(* signature script exactly when IsPayToScriptHash(scriptPubKey) is true,  *)
(* and otherwise returns the precise count of scriptPubKey decoded up to   *)
(* its first error.                                                        *)
PreciseCountAgreesWithIsPayToScriptHash ==
    (Returned("GetPreciseSigOpCount") /\ ret.bip16) =>
        /\ ret.line # 387 <=> IsPayToScriptHash(script)
        /\ ~IsPayToScriptHash(script) =>
             ret.result = getSigOpCount(parseScript(script).pops, TRUE)

---------------------------------------------------------------------------
(* canonicalPush on the instruction of every script of CanonScripts: an    *)
(* opcode without data, a direct push, or a prefixed push whose data       *)
(* length sits at or next to one of the limits the function compares it    *)
(* with.                                                                   *)

CanonFills == {0, 16, 17, 255}

CanonDataLens == {0, 1, 2, 75, 76, 255, 256, 65535, 65536}

PushScript(op, n, fill) ==
    <<op>> \o (IF OpLength(op) < 0 THEN LengthPrefix(n, -OpLength(op)) ELSE <<>>)
           \o [k \in 1..n |-> fill]

CanonScripts ==
    {<<op>> : op \in {OP_0, OP_1NEGATE, OP_RESERVED, OP_1, OP_16, OP_NOP, OP_RETURN,
                      OP_CHECKSIG}}
    \cup {PushScript(op, op, fill) : op \in {OP_DATA_1, OP_DATA_2, OP_DATA_75},
                                     fill \in CanonFills}
    \cup {PushScript(OP_PUSHDATA1, n, fill) :
            n \in {m \in CanonDataLens : m <= 255}, fill \in CanonFills}
    \cup {PushScript(OP_PUSHDATA2, n, fill) :
            n \in {m \in CanonDataLens : m <= 65535}, fill \in CanonFills}
    \cup {PushScript(OP_PUSHDATA4, n, fill) : n \in CanonDataLens, fill \in CanonFills}

InitCanon ==
    /\ script \in CanonScripts
    /\ nparts = 1
    /\ pc = "input"
    /\ i = 0
    /\ retScript = <<>>
    /\ err = Nil
    /\ ret = NoCall

NextCanon == CallCanonicalPush

SpecCanon == InitCanon /\ [][NextCanon]_vars

\* The size of the instruction that pushes n bytes with opcode op.
EncodedSize(op, n) ==
    CASE op = OP_PUSHDATA1 -> 2 + n
      [] op = OP_PUSHDATA2 -> 3 + n
      [] op = OP_PUSHDATA4 -> 5 + n
      [] OTHER -> 1 + n

\* The size of the smallest instruction that pushes n bytes, n # 1.
ShortestSize(n) ==
    IF n <= 75 THEN 1 + n
    ELSE IF n <= 255 THEN 2 + n
    ELSE IF n <= 65535 THEN 3 + n
    ELSE 5 + n

(* C9: canonicalPush is true for an opcode above OP_16; for a push it is   *)
(* false for a direct push of one byte of value at most 16, for            *)
(* OP_PUSHDATA1 with fewer than 76 bytes, for OP_PUSHDATA2 with at most    *)
(* 0xff bytes and for OP_PUSHDATA4 with at most 0xffff bytes, and true     *)
(* otherwise; for data of a length other than 1 that is when the           *)
(* instruction is the smallest that pushes so many bytes.                  *)
CanonicalIffShortest ==
    Returned("canonicalPush") =>
        LET op == ret.pop.opcode
            data == ret.pop.data
            n == Len(ret.pop.data)
        IN  /\ op > OP_16 => ret.result = TRUE
            /\ op <= OP_16 =>
                 (ret.result = FALSE <=>
                    \/ op \in OP_DATA_1..OP_DATA_75 /\ n = 1 /\ data[1] <= 16
                    \/ op = OP_PUSHDATA1 /\ n < 76
                    \/ op = OP_PUSHDATA2 /\ n <= 255
                    \/ op = OP_PUSHDATA4 /\ n <= 65535)
            /\ (op <= OP_16 /\ n # 1) =>
                 (ret.result = TRUE <=> EncodedSize(op, n) = ShortestSize(n))

CanonicalWitness ==
    /\ Returned("canonicalPush")
    /\ ret.pop.opcode = OP_PUSHDATA1
    /\ Len(ret.pop.data) = 76
    /\ ret.result = TRUE

---------------------------------------------------------------------------
(* removeOpcodeByData on the opcodes of scripts of at most                 *)
(* MaxRemovePieces instructions (opcodes that push nothing, canonical and  *)
(* non-canonical pushes of the bytes 16 and 17) and a target from          *)
(* RemoveTargets.                                                          *)

MaxRemovePieces == 3

RemovePieces ==
    { <<OP_NOP>>, <<OP_CHECKSIG>>, <<OP_0>>, <<OP_16>>,
      <<OP_DATA_1, 16>>, <<OP_DATA_1, 17>>, <<OP_DATA_2, 16, 17>>, <<OP_DATA_2, 17, 17>>,
      <<OP_PUSHDATA1, 1, 17>>, <<OP_PUSHDATA1, 2, 16, 17>> }

RemoveTargets == {<<>>, <<16>>, <<17>>, <<16, 17>>, <<17, 17>>, <<17, 16>>}

NextRemove ==
    \/ AppendPiece(RemovePieces, MaxRemovePieces)
    \/ CallRemoveOpcodeByData(RemoveTargets)

SpecRemove == Init /\ [][NextRemove]_vars

\* target occurs in b as a contiguous sub-sequence
OccursIn(target, b) ==
    \E from \in 1..(Len(b) + 1) :
        /\ from + Len(target) - 1 <= Len(b)
        /\ \A k \in 1..Len(target) : b[from + k - 1] = target[k]

(* What the claim says is omitted: a push (opcode at most OP_16) in        *)
(* canonical form whose data contains the target.                          *)
OmittedPush(pop, target) ==
    /\ pop.opcode <= OP_16
    /\ canonicalPush(pop)
    /\ OccursIn(target, pop.data)

\* The instructions of pops that are not omitted, in their order.
RECURSIVE Kept(_, _)
Kept(pops, target) ==
    IF pops = <<>> THEN <<>>
    ELSE IF OmittedPush(Head(pops), target) THEN Kept(Tail(pops), target)
    ELSE <<Head(pops)>> \o Kept(Tail(pops), target)

(* C8, as claimed: removeOpcodeByData returns, in their order, the         *)
(* instructions that are not canonical pushes (opcode at most OP_16)       *)
(* whose data contains the target, whatever the target, the empty one      *)
(* included; every opcode above OP_16 is kept.                             *)
RemovesOnlyCanonicalPushesOfData ==
    Returned("removeOpcodeByData") =>
        /\ ret.result = Kept(ret.pkscript, ret.data)
        /\ ret.pkscript = parseScript(script).pops

===========================================================================
